---- MODULE Spec2Model ----
(***************************************************************************)
(* The batch analysis orchestrator of Amelia-Support-Insights: the         *)
(* startAnalysis loop of the AiAnalysisModal component, in the three       *)
(* versions the repository holds, with the services it awaits and the      *)
(* Dashboard state it writes to.                                           *)
(*                                                                         *)
(*   "upsert"  src/unnamed/part_000               (onAnalysisUpdate sink)  *)
(*   "append"  src/unnamed/part_001               (results array, 50 cap)  *)
(*   "legacy"  src/components/AiAnalysisModal.tsx (results array, 50 cap,  *)
(*                                                 auth check only)       *)
(*                                                                         *)
(* JavaScript runs each handler to its next await without interruption,    *)
(* so an action is one such segment: a click handler, or the continuation  *)
(* of startAnalysis after a promise settles or a timer fires.              *)
(***************************************************************************)
EXTENDS Integers, Sequences, FiniteSets, TLC

VARIABLES
    variant,        \* which version of AiAnalysisModal is mounted
    fault,          \* how the analysis provider fails, when it fails
    budget,         \* clicks on Start and provider failures still to come
    tickets,        \* Dashboard: the ticket ids of the current search result
    isAiModalOpen,  \* Dashboard: isAiModalOpen
    aiResults,      \* Dashboard: ticketId -> AiAnalysisResult
    modal,          \* AiAnalysisModal: its useState hooks
    isRunningRef,   \* AiAnalysisModal: isRunningRef.current
    runs,           \* the invocations of startAnalysis, in order of their click
    pending,        \* provider calls and timers that have not settled yet
    cErr,           \* SpecClassify: the failure under classification
    cOut,           \* SpecClassify: what the catch block made of it
    json,           \* SpecLogin: the body of the authentication response
    token           \* SpecLogin: what ApiService.login made of it

mvars == <<variant, fault, budget, tickets, isAiModalOpen, aiResults, modal,
           isRunningRef, runs, pending>>
cvars == <<cErr, cOut, json, token>>
vars  == <<mvars, cvars>>

Variants == {"upsert", "append", "legacy"}

Max(a, b) == IF a >= b THEN a ELSE b
Min(a, b) == IF a <= b THEN a ELSE b

(***************************************************************************)
(* Strings.  TLC gives Len, SubSeq and \o on strings; toLowerCase and      *)
(* includes are computed character by character.                           *)
(***************************************************************************)
Upper == "ABCDEFGHIJKLMNOPQRSTUVWXYZ"
Lower == "abcdefghijklmnopqrstuvwxyz"

LowerChar(c) ==
    IF \E k \in 1..Len(Upper) : SubSeq(Upper, k, k) = c
    THEN LET k == CHOOSE j \in 1..Len(Upper) : SubSeq(Upper, j, j) = c
         IN  SubSeq(Lower, k, k)
    ELSE c

RECURSIVE toLowerCase(_)
toLowerCase(s) ==
    IF Len(s) = 0 THEN ""
    ELSE LowerChar(SubSeq(s, 1, 1)) \o toLowerCase(SubSeq(s, 2, Len(s)))

includes(s, p) ==
    \E k \in 1..(Len(s) - Len(p) + 1) : SubSeq(s, k, k + Len(p) - 1) = p


(***************************************************************************)
(* The failure a provider call rejects with, as the catch block reads it:  *)
(* err.status || 0 and err.message (absent reads as "").                   *)
(***************************************************************************)
Err(status, message) == [status |-> status, message |-> message]
NoErr == Err(-1, "")     \* no failure at all
NoVerdict == [stopped |-> FALSE, class |-> "none", error |-> "", alert |-> ""]
\* No authentication response, and no call of login.
NoBody  == [type |-> "none"]
NoToken == [ok |-> FALSE, value |-> "", called |-> FALSE]

\* part_000:131-134, part_001:135-139; AiAnalysisModal.tsx:112 tests the
\* message as thrown, for '401' and 'API key' only.
isAuthError(v, err) ==
    IF v = "legacy"
    THEN /\ err.message # ""
         /\ (includes(err.message, "401") \/ includes(err.message, "API key"))
    ELSE LET msg == toLowerCase(err.message)
         IN  \/ includes(msg, "401")
             \/ includes(msg, "api key")
             \/ includes(msg, "unauthorized")
             \/ err.status = 401

\* The rate-limit test taking every status from 429 up as a rate limit.
isRateLimit_ServerErrors(v, err) ==
    /\ v # "legacy"
    /\ \/ err.status >= 429
       \/ \E p \in {"429", "quota", "too many requests", "resource exhausted"} :
              includes(toLowerCase(err.message), p)

\* part_000:135, part_001:142; AiAnalysisModal.tsx has no such test.
isRateLimit(v, err) ==
    IF v = "legacy"
    THEN FALSE
    ELSE LET msg == toLowerCase(err.message)
         IN  \/ err.status = 429
             \/ includes(msg, "429")
             \/ includes(msg, "quota")
             \/ includes(msg, "too many requests")
             \/ includes(msg, "resource exhausted")

\* The branch of the catch block a failure takes: the fatal branch is
\* entered on isAuthError || isRateLimit, and inside it every ternary asks
\* isRateLimit first.
classify(v, err) ==
    IF isAuthError(v, err) \/ isRateLimit(v, err)
    THEN IF isRateLimit(v, err) THEN "RateLimited" ELSE "AuthFailed"
    ELSE "Recoverable"

(***************************************************************************)
(* Bounds of the model.                                                    *)
(***************************************************************************)
MaxTickets    == 2  \* length of the longest ticket list
MaxRuns       == 1  \* Spec: clicks on Start Analysis in one behaviour
MaxFailures   == 2  \* Spec: provider calls that fail in one behaviour
AgainRuns     == 2  \* SpecAgain: clicks on Start Analysis
AgainFailures == 0  \* SpecAgain: provider calls that fail
SinkFailures  == 1  \* SpecSink: provider calls that fail

(***************************************************************************)
(* Tickets and results.                                                    *)
(***************************************************************************)
SliceLimit  == 50    \* tickets.slice(0, 50)
TicketLists == { [k \in 1..n |-> k] : n \in 1..MaxTickets }
LongList    == [k \in 1..(SliceLimit + 1) |-> k]

\* A slice that takes the element at its end index too.
slice_EndInclusive(list, from, to) == SubSeq(list, from + 1, Min(to + 1, Len(list)))

slice(list, from, to) == SubSeq(list, from + 1, Min(to, Len(list)))

\* { ticketId: ticket.ticketId, ...parsed }: the keys of parsed win.
Spread(base, parsed) ==
    [k \in DOMAIN base \cup DOMAIN parsed |->
        IF k \in DOMAIN parsed THEN parsed[k] ELSE base[k]]

\* result.error, undefined read as "".
ErrorOf(res) == IF "error" \in DOMAIN res THEN res.error ELSE ""

GoodJson      == "{\"score\":8,\"summary\":\"ok\",\"strengths\":[\"fast\"],\"weaknesses\":[],\"rcaDetected\":true}"
TruncatedJson == "{\"score\":8,"

\* s repeated n times.
RECURSIVE Repeat(_, _)
Repeat(s, n) ==
    IF n = 0 THEN ""
    ELSE IF n % 2 = 0 THEN LET h == Repeat(s, n \div 2) IN h \o h
    ELSE s \o Repeat(s, n - 1)

\* A response cut off inside the summary string, 401 characters long.
CutInSummary  == "{\"score\":8,\"summary\":\""
LongTruncatedJson == CutInSummary \o Repeat("a", 401 - Len(CutInSummary))

ResponseTexts == {GoodJson, TruncatedJson, LongTruncatedJson, ""}

\* Analyses with a field more than the response schema names: a ticketId,
\* an error.
ForeignIdJson == "{\"ticketId\":9," \o SubSeq(GoodJson, 2, Len(GoodJson))
ErrorJson     == "{\"error\":\"overloaded\"," \o SubSeq(GoodJson, 2, Len(GoodJson))
PayloadTexts  == {ForeignIdJson, ErrorJson}

\* Occurrences of the character c in s.
RECURSIVE Count(_, _)
Count(s, c) ==
    IF Len(s) = 0 THEN 0
    ELSE IF Len(s) = 1 THEN (IF s = c THEN 1 ELSE 0)
    ELSE LET h == Len(s) \div 2
         IN  Count(SubSeq(s, 1, h), c) + Count(SubSeq(s, h + 1, Len(s)), c)

\* The message of the SyntaxError JSON.parse throws on a text that ends too
\* early (V8): the end falls inside a string literal, or between tokens.
\* The texts are on one line and carry no escaped quote.
SyntaxErrorMessage(text) ==
    IF Count(text, "\"") % 2 = 1
    THEN "Unterminated string in JSON at position " \o ToString(Len(text))
         \o " (line 1 column " \o ToString(Len(text) + 1) \o ")"
    ELSE "Unexpected end of JSON input"

\* JSON.parse on the response texts above: the object, or the SyntaxError.
JSONparse(text) ==
    LET analysis == [score |-> 8, summary |-> "ok", strengths |-> <<"fast">>,
                     weaknesses |-> <<>>, rcaDetected |-> TRUE]
    IN  IF text = GoodJson
        THEN [ok |-> TRUE, err |-> NoErr, value |-> analysis]
        ELSE IF text = ForeignIdJson
        THEN [ok |-> TRUE, err |-> NoErr,
              value |-> Spread([ticketId |-> 9], analysis)]
        ELSE IF text = ErrorJson
        THEN [ok |-> TRUE, err |-> NoErr,
              value |-> Spread([error |-> "overloaded"], analysis)]
        ELSE [ok |-> FALSE, err |-> Err(0, SyntaxErrorMessage(text)),
              value |-> [score |-> 0]]

\* The message as it is, with no fallback for an empty one.
MessageOrUnknown_NoFallback(err) == err.message

\* err.message || "Unknown error"
MessageOrUnknown(err) == IF err.message # "" THEN err.message ELSE "Unknown error"

\* The result the fatal branch of the catch block builds.
FatalResult(v, ticketId, err) ==
    LET rate == isRateLimit(v, err) IN
    CASE v = "upsert" ->
           [ticketId |-> ticketId, score |-> 0,
            summary |-> IF rate THEN "Rate Limit Exceeded" ELSE "Auth Failed",
            strengths |-> <<>>, weaknesses |-> <<>>, rcaDetected |-> FALSE,
            error |-> IF rate THEN "429 Quota Exceeded" ELSE "401 Unauthorized"]
      [] v = "append" ->
           LET errorDesc == IF rate THEN "API Quota Exceeded" ELSE "Invalid API Key" IN
           [ticketId |-> ticketId, score |-> 0,
            summary |-> "Processing halted: " \o errorDesc,
            strengths |-> <<>>, weaknesses |-> <<errorDesc>>, rcaDetected |-> FALSE,
            error |-> IF rate THEN "Rate Limit Exceeded (429)" ELSE "Critical Auth Error"]
      [] v = "legacy" ->
           [ticketId |-> ticketId, score |-> 0,
            summary |-> "Authentication failed during batch processing.",
            strengths |-> <<>>, weaknesses |-> <<"Invalid or Expired API Key">>,
            rcaDetected |-> FALSE, error |-> "Critical Auth Error"]

\* The result the catch block builds for a failure that does not stop the loop.
FailedResult(v, ticketId, err) ==
    IF v = "upsert"
    THEN [ticketId |-> ticketId, score |-> 0, summary |-> "Analysis failed",
          strengths |-> <<>>, weaknesses |-> <<>>, rcaDetected |-> FALSE,
          error |-> MessageOrUnknown(err)]
    ELSE [ticketId |-> ticketId, score |-> 0, summary |-> "Analysis failed.",
          strengths |-> <<>>, weaknesses |-> <<"Error processing ticket">>,
          rcaDetected |-> FALSE, error |-> MessageOrUnknown(err)]

\* setAuthError(...) of the fatal branch; AiAnalysisModal.tsx sets none.
FatalAlert(v, err, old) ==
    LET rate == isRateLimit(v, err) IN
    CASE v = "upsert" -> IF rate THEN "Analysis paused: Rate limit exceeded."
                         ELSE "Analysis stopped: Auth failed."
      [] v = "append" -> IF rate
                         THEN "Analysis stopped: API Quota/Rate limit exceeded. Please try again later or increase the RPM delay."
                         ELSE "Analysis stopped: Authentication failed."
      [] v = "legacy" -> old

ConnectionFailed(v) ==
    IF v = "upsert" THEN "Connection failed. Please check your API Key."
    ELSE "Connection failed. Please check your API Key or environment configuration."

\* The step the modal shows once a run is over.
DoneStep(v) == IF v = "upsert" THEN "complete" ELSE "results"

(***************************************************************************)
(* The rate limiter.  60000 / rpm is a JavaScript number, kept here as the *)
(* fraction num/den with den > 0.                                          *)
(***************************************************************************)
Abs(n) == IF n < 0 THEN -n ELSE n
Rat(n, d) == [num |-> n, den |-> d]
RatLess(a, b) == a.num * b.den < b.num * a.den
RatMax(a, b) == IF RatLess(a, b) THEN b ELSE a
RatSub(a, b) == Rat(a.num * b.den - b.num * a.den, a.den * b.den)

\* 60000 / config.rpm with the quotient rounded down.
delayMs_Floored(rpm) ==
    RatMax(Rat(100, 1), Rat(60000 \div Max(rpm, 1), 1))

\* 60000 / config.rpm with no floor at 100.
delayMs_NoFloor(rpm) == Rat(IF rpm < 0 THEN -60000 ELSE 60000, Abs(rpm))

\* Math.max(100, 60000 / config.rpm); config.rpm is never 0 (see onChangeRpm).
delayMs(rpm) ==
    RatMax(Rat(100, 1), Rat(IF rpm < 0 THEN -60000 ELSE 60000, Abs(rpm)))

\* delayMs - elapsedTime, with no floor at 0.
timeToWait_NoFloor(delay, elapsedTime) == RatSub(delay, Rat(elapsedTime, 1))

\* Math.max(0, delayMs - elapsedTime)
timeToWait(delay, elapsedTime) == RatMax(Rat(0, 1), RatSub(delay, Rat(elapsedTime, 1)))

(***************************************************************************)
(* What the environment may answer.                                        *)
(***************************************************************************)
ApiKeys      == {"", "user-key"}
envKey       == "env-key"       \* process.env.API_KEY of the build
\* Date.now() - startTime in ms, on a clock that is not set back meanwhile:
\* a quick item, and one that takes the interval of rpm 10.
ElapsedTimes == {40, 6000}

AuthFailure     == Err(401, "API key not valid")
QuotaFailure    == Err(429, "Quota exceeded")
ServerFailure   == Err(500, "boom")
SilentFailure   == Err(0, "")
\* new Error(`Failed to fetch history: ${response.statusText}`)
HistoryError(statusText) == Err(0, "Failed to fetch history: " \o statusText)
HistoryFailure      == HistoryError("Internal Server Error")   \* HTTP 500
HistoryUnauthorized == HistoryError("Unauthorized")            \* HTTP 401
MissingKey      == Err(0, "API Key is missing. Please provide a key or configure the environment.")
EmptyResponse   == Err(0, "Empty response from AI")

Settled(ok, err, text) == [ok |-> ok, err |-> err, text |-> text]

HistoryOutcomes  == {Settled(TRUE, NoErr, "")}
                    \cup {Settled(FALSE, e, "") : e \in {HistoryFailure, HistoryUnauthorized}}
\* The ways generateContent goes wrong: it rejects, or it resolves with a
\* text that analyzeTicket cannot use.  A behaviour meets one of them.
Faults == {Settled(FALSE, e, "") :
              e \in {AuthFailure, QuotaFailure, ServerFailure, SilentFailure}}
          \cup {Settled(TRUE, NoErr, t) : t \in ResponseTexts \ {GoodJson}}
AnalysisOutcomes == {Settled(TRUE, NoErr, GoodJson), fault}

\* apiKey ? apiKey.trim()... : process.env.API_KEY  (the keys of the model
\* carry no blanks or quotes)
KeyOf(apiKey) == IF apiKey # "" THEN apiKey ELSE envKey

(***************************************************************************)
(* State after construction: the dashboard holds a search result, the      *)
(* modal is mounted and closed.                                            *)
(***************************************************************************)
DefaultConfig(v) ==
    [apiKey |-> "", model |-> "gemini-2.5-flash", rpm |-> IF v = "upsert" THEN 30 ELSE 10]

ModalInit(v) ==
    [step |-> "config", config |-> DefaultConfig(v), progress |-> 0,
     processedCount |-> 0, errorCount |-> 0,
     results |-> <<>>, isVerifying |-> FALSE, authError |-> ""]

\* The key field matters to part_000 alone, which skips the probe without one.
InitMain(nruns, nfailures, faults, lists) ==
    /\ budget = [runs |-> nruns, failures |-> nfailures]
    /\ variant \in Variants
    /\ fault \in faults
    /\ tickets \in lists
    /\ isAiModalOpen = FALSE
    /\ aiResults = <<>>
    /\ \E key \in (IF variant = "upsert" THEN ApiKeys ELSE {""}) :
         modal = [ModalInit(variant) EXCEPT !.config.apiKey = key]
    /\ isRunningRef = FALSE
    /\ runs = <<>>
    /\ pending = {}

Init ==
    /\ InitMain(MaxRuns, MaxFailures, Faults, TicketLists)
    /\ cErr = NoErr
    /\ cOut = NoVerdict
    /\ json = NoBody
    /\ token = NoToken

(***************************************************************************)
(* One invocation of startAnalysis.  pc is the await it is suspended at.   *)
(* The fields after delay are observations of the run, written but never   *)
(* read by the code.                                                       *)
(***************************************************************************)
NoExit == [step |-> "", authError |-> "", progress |-> -1]

NoCancel == [by |-> "", pc |-> "", i |-> 0, slept |-> 0]

NoThrottle == [i |-> -1, elapsedTime |-> 0, timeToWait |-> Rat(0, 1)]
NewRun(cfg, list) ==
    [pc |-> "validateApiKey", i |-> 0, config |-> cfg, tickets |-> list,
     ticketsToProcess |-> <<>>, delay |-> Rat(0, 1),
     started |-> FALSE,     \* the loop was entered
     emitted |-> <<>>,      \* <<index, result, err>> handed to the sink, in order
     fetched |-> 0,         \* calls of getTicketHistory
     analyzed |-> 0,        \* calls of analyzeTicket
     slept |-> 0,           \* throttle timers set
     throttle |-> NoThrottle, \* the last timeToWait computed, and from what
     fatal |-> "",          \* the fatal branch taken: its classification
     atFatal |-> <<0, 0, 0>>, \* fetched, analyzed, slept when it was taken
     cancel |-> NoCancel,   \* the first clearing of the flag under the live loop
     exit |-> NoExit]       \* what the modal showed when the run returned

Live(run) == run.started /\ run.pc # "returned"

Call(r, name, arg) == [run |-> r, call |-> name, arg |-> arg]

\* The part of the state a segment of run r reads and writes.
World(r) ==
    [id |-> r, modal |-> modal, ref |-> isRunningRef, ai |-> aiResults,
     run |-> runs[r], pend |-> pending]

\* Observation: `by' clears the flag under the live loop of `run'.
Cancelled(run, by) ==
    IF Live(run) /\ run.cancel = NoCancel
    THEN [run EXCEPT !.cancel = [by |-> by, pc |-> run.pc, i |-> run.i,
                              slept |-> run.slept]]
    ELSE run

\* A segment of another run takes the flag from true to false.
Cancels(w) == isRunningRef /\ ~w.ref

Commit(w, failed) ==
    /\ budget' = [budget EXCEPT !.failures = IF failed THEN @ - 1 ELSE @]
    /\ failed => budget.failures > 0
    /\ modal' = w.modal
    /\ isRunningRef' = w.ref
    /\ aiResults' = w.ai
    /\ pending' = w.pend
    /\ runs' = [q \in DOMAIN runs |->
                  IF q = w.id THEN w.run
                  ELSE IF Cancels(w) THEN Cancelled(runs[q], "startAnalysis")
                       ELSE runs[q]]
    /\ UNCHANGED <<variant, fault, tickets, isAiModalOpen, cvars>>

(***************************************************************************)
(* The segments of startAnalysis, as functions of the world.               *)
(***************************************************************************)

\* After the loop: setStep(<done>); isRunningRef.current = false.
Exit(w) ==
    [w EXCEPT !.modal.step = DoneStep(variant),
              !.ref = FALSE,
              !.run.pc = "returned",
              !.run.exit = [step |-> DoneStep(variant),
                            authError |-> w.modal.authError,
                            progress |-> w.modal.progress]]

\* The fetches of items i and i + 1 are started together.
Dispatch_Prefetch(w, i) ==
    LET items == w.run.ticketsToProcess
        both  == {Call(w.id, "getTicketHistory", items[k + 1]) :
                     k \in {j \in {i, i + 1} : j < Len(items)}}
    IN  [w EXCEPT !.run.i = i,
                  !.run.pc = "getTicketHistory",
                  !.run.fetched = @ + Cardinality(both),
                  !.pend = @ \cup both]

\* The loop body up to its first await: the history fetch of item i.
Dispatch(w, i) ==
    LET ticketId == w.run.ticketsToProcess[i + 1] IN
    [w EXCEPT !.run.i = i,
              !.run.pc = "getTicketHistory",
              !.run.fetched = @ + 1,
              !.pend = @ \cup {Call(w.id, "getTicketHistory", ticketId)}]

\* The loop bound one short: i < ticketsToProcess.length - 1.
LoopHead_OffByOne(w, i) ==
    IF i < Len(w.run.ticketsToProcess) - 1 /\ w.ref
    THEN Dispatch(w, i)
    ELSE Exit(w)

\* for (...; i < ticketsToProcess.length; ...) { if (!isRunningRef.current) break;
LoopHead(w, i) ==
    IF i < Len(w.run.ticketsToProcess) /\ w.ref
    THEN Dispatch(w, i)
    ELSE Exit(w)

\* The loop set up from the configuration and the list on screen when the
\* probe returns, not from those of the click.
Begin_CurrentConfig(w) ==
    LET list == IF variant = "upsert" THEN tickets
                ELSE slice(tickets, 0, SliceLimit)
        w1 == [w EXCEPT !.modal.isVerifying = FALSE,
                        !.modal.step = "processing",
                        !.modal.results = <<>>,
                        !.modal.progress = 0,
                        !.modal.processedCount = 0,
                        !.modal.errorCount = 0,
                        !.ref = TRUE,
                        !.run.started = TRUE,
                        !.run.delay = delayMs(w.modal.config.rpm),
                        !.run.ticketsToProcess = list]
    IN  LoopHead(w1, 0)

\* From setStep('processing') to the first await of the loop.
Begin(w) ==
    LET list == IF variant = "upsert" THEN w.run.tickets
                ELSE slice(w.run.tickets, 0, SliceLimit)
        w1 == [w EXCEPT !.modal.isVerifying = FALSE,
                        !.modal.step = "processing",
                        !.modal.results = <<>>,
                        !.modal.progress = 0,
                        !.modal.processedCount = 0,
                        !.modal.errorCount = 0,
                        !.ref = TRUE,
                        !.run.started = TRUE,
                        !.run.delay = delayMs(w.run.config.rpm),
                        !.run.ticketsToProcess = list]
    IN  LoopHead(w1, 0)

\* A sink that keeps the latest result alone: setAiResults({[id]: result}).
handleAnalysisUpdate_Replace(ai, result) ==
    [k \in {result.ticketId} |-> result]

\* Dashboard.handleAnalysisUpdate
handleAnalysisUpdate(ai, result) ==
    [k \in DOMAIN ai \cup {result.ticketId} |->
        IF k = result.ticketId THEN result ELSE ai[k]]

\* The sink: onAnalysisUpdate(result), or setResults(prev => [...prev, result]).
Emit(w, result, err) ==
    LET w1 == [w EXCEPT !.run.emitted = Append(@, <<w.run.i, result, err>>)] IN
    IF variant = "upsert"
    THEN [w1 EXCEPT !.ai = handleAnalysisUpdate(@, result)]
    ELSE [w1 EXCEPT !.modal.results = Append(@, result)]

\* When no wait is due the loop goes round without i++.
Throttle_SameItem(w, elapsedTime) ==
    LET i  == w.run.i
        w1 == [w EXCEPT !.modal.progress = i + 1]
    IN  IF /\ i < Len(w.run.ticketsToProcess) - 1
           /\ w1.ref
           /\ RatLess(Rat(0, 1), timeToWait(w.run.delay, elapsedTime))
        THEN [w1 EXCEPT !.run.pc = "setTimeout",
                        !.run.slept = @ + 1,
                        !.pend = @ \cup {Call(w.id, "setTimeout", i)}]
        ELSE LoopHead(w1, i)

\* The throttle awaiting a promise that nothing resolves.
Throttle_NoTimer(w, elapsedTime) ==
    LET i  == w.run.i
        w1 == [w EXCEPT !.modal.progress = i + 1]
        ms == timeToWait(w.run.delay, elapsedTime)
        w2 == [w1 EXCEPT !.run.throttle =
                  [i |-> i, elapsedTime |-> elapsedTime, timeToWait |-> ms]]
    IN  IF i < Len(w.run.ticketsToProcess) - 1 /\ w1.ref
        THEN IF RatLess(Rat(0, 1), ms)
             THEN [w2 EXCEPT !.run.pc = "setTimeout",
                             !.run.slept = @ + 1]
             ELSE LoopHead(w2, i + 1)
        ELSE LoopHead(w1, i + 1)

\* setProgress(i + 1) and the throttle, to the next await.
Throttle(w, elapsedTime) ==
    LET i  == w.run.i
        w1 == [w EXCEPT !.modal.progress = i + 1]
        ms == timeToWait(w.run.delay, elapsedTime)
        w2 == [w1 EXCEPT !.run.throttle =
                  [i |-> i, elapsedTime |-> elapsedTime, timeToWait |-> ms]]
    IN  IF i < Len(w.run.ticketsToProcess) - 1 /\ w1.ref
        THEN IF RatLess(Rat(0, 1), ms)
             THEN [w2 EXCEPT !.run.pc = "setTimeout",
                             !.run.slept = @ + 1,
                             !.pend = @ \cup {Call(w.id, "setTimeout", i)}]
             ELSE LoopHead(w2, i + 1)
        ELSE LoopHead(w1, i + 1)

\* The fatal branch without its break and without clearing the flag.
CatchFatal_NoBreak(w, err) ==
    LET ticketId == w.run.ticketsToProcess[w.run.i + 1]
        w1 == [w EXCEPT !.modal.authError = FatalAlert(variant, err, @),
                        !.run.fatal = classify(variant, err),
                        !.run.atFatal = <<w.run.fetched, w.run.analyzed, w.run.slept>>]
    IN  Throttle(Emit(w1, FatalResult(variant, ticketId, err), err), 40)

\* The fatal branch of the catch block, through break to the return.
CatchFatal(w, err) ==
    LET ticketId == w.run.ticketsToProcess[w.run.i + 1]
        w1 == [w EXCEPT !.ref = FALSE,
                        !.modal.step = DoneStep(variant),
                        !.modal.authError = FatalAlert(variant, err, @),
                        !.run.fatal = classify(variant, err),
                        !.run.atFatal = <<w.run.fetched, w.run.analyzed, w.run.slept>>]
    IN  Exit(Emit(w1, FatalResult(variant, ticketId, err), err))

\* A catch block that handles the fatal failures and throws the others on:
\* startAnalysis rejects.
Catch_Rethrow(w, err, elapsedTime) ==
    IF isAuthError(variant, err) \/ isRateLimit(variant, err)
    THEN CatchFatal(w, err)
    ELSE [w EXCEPT !.run.pc = "rejected"]

\* catch (err) { ... }
Catch(w, err, elapsedTime) ==
    LET ticketId == w.run.ticketsToProcess[w.run.i + 1]
        w1 == [w EXCEPT !.modal.errorCount =
                            IF variant = "upsert" THEN @ + 1 ELSE @]
    IN  IF isAuthError(variant, err) \/ isRateLimit(variant, err)
        THEN CatchFatal(w1, err)
        ELSE Throttle(Emit(w1, FailedResult(variant, ticketId, err), err), elapsedTime)

\* The try block after analyzeTicket resolved with result.
Success(w, result, elapsedTime) ==
    LET w1 == Emit(w, result, NoErr)
        w2 == [w1 EXCEPT !.modal.processedCount =
                            IF variant = "upsert" THEN @ + 1 ELSE @]
    IN  Throttle(w2, elapsedTime)

(***************************************************************************)
(* Actions.                                                                *)
(***************************************************************************)

\* Click on Start Analysis: startAnalysis up to its first await.
startAnalysis ==
    /\ isAiModalOpen
    /\ modal.step = "config"
    /\ variant # "upsert" => (Len(tickets) # 0 /\ ~modal.isVerifying)
    /\ budget.runs > 0
    /\ LET r  == Len(runs) + 1
           w0 == [id |-> r, modal |-> [modal EXCEPT !.authError = ""],
                  ref |-> isRunningRef, ai |-> aiResults,
                  run |-> NewRun(modal.config, tickets), pend |-> pending]
           w  == IF variant = "upsert"
                 THEN IF modal.config.apiKey # ""
                      THEN [w0 EXCEPT !.pend = @ \cup {Call(r, "validateApiKey", 0)}]
                      ELSE Begin(w0)
                 ELSE [w0 EXCEPT !.modal.isVerifying = TRUE,
                                 !.pend = @ \cup {Call(r, "validateApiKey", 0)}]
       IN  /\ modal' = w.modal
           /\ isRunningRef' = w.ref
           /\ aiResults' = w.ai
           /\ pending' = w.pend
           /\ runs' = Append([q \in DOMAIN runs |->
                                IF Cancels(w) THEN Cancelled(runs[q], "startAnalysis")
                                ELSE runs[q]], w.run)
           /\ budget' = [budget EXCEPT !.runs = @ - 1]
           /\ UNCHANGED <<variant, fault, tickets, isAiModalOpen, cvars>>

\* AiService.validateApiKey settles: false without a key, else what the probe says.
AfterValidateApiKey(r) ==
    /\ runs[r].pc = "validateApiKey"
    /\ Call(r, "validateApiKey", 0) \in pending
    /\ \E isValid \in (IF KeyOf(runs[r].config.apiKey) = "" THEN {FALSE} ELSE BOOLEAN) :
         LET w0 == [World(r) EXCEPT !.pend = @ \ {Call(r, "validateApiKey", 0)}] IN
         IF isValid
         THEN Commit(Begin(w0), FALSE)
         ELSE Commit([w0 EXCEPT !.modal.authError = ConnectionFailed(variant),
                                !.modal.isVerifying = FALSE,
                                !.run.pc = "returned"], FALSE)

\* ApiService.getTicketHistory settles; on success analyzeTicket is called.
AfterGetTicketHistory(r) ==
    /\ runs[r].pc = "getTicketHistory"
    /\ \E c \in pending, out \in HistoryOutcomes, elapsedTime \in ElapsedTimes :
         /\ c.run = r /\ c.call = "getTicketHistory"
         /\ LET w0 == [World(r) EXCEPT !.pend = @ \ {c}] IN
            IF ~out.ok
            THEN Commit(Catch(w0, out.err, elapsedTime), TRUE)
            ELSE LET w1 == [w0 EXCEPT !.run.analyzed = @ + 1] IN
                 IF KeyOf(runs[r].config.apiKey) = ""
                 THEN Commit(Catch(w1, MissingKey, elapsedTime), FALSE)
                 ELSE Commit([w1 EXCEPT !.run.pc = "analyzeTicket",
                                        !.pend = @ \cup {Call(r, "generateContent", c.arg)}],
                             FALSE)

\* ai.models.generateContent settles; analyzeTicket parses and returns.
AfterAnalyzeTicket(r) ==
    /\ runs[r].pc = "analyzeTicket"
    /\ \E c \in pending, out \in AnalysisOutcomes, elapsedTime \in ElapsedTimes :
         /\ c.run = r /\ c.call = "generateContent"
         /\ LET w0 == [World(r) EXCEPT !.pend = @ \ {c}]
                parsed == JSONparse(out.text)
            IN  IF ~out.ok THEN Commit(Catch(w0, out.err, elapsedTime), TRUE)
                ELSE IF out.text = "" THEN Commit(Catch(w0, EmptyResponse, elapsedTime), TRUE)
                ELSE IF ~parsed.ok THEN Commit(Catch(w0, parsed.err, elapsedTime), TRUE)
                ELSE Commit(Success(w0, Spread([ticketId |-> c.arg], parsed.value),
                                    elapsedTime), FALSE)

\* The throttle timer fires: i++ and the loop head.
AfterSetTimeout(r) ==
    /\ runs[r].pc = "setTimeout"
    /\ Call(r, "setTimeout", runs[r].i) \in pending
    /\ LET w0 == [World(r) EXCEPT !.pend = @ \ {Call(r, "setTimeout", runs[r].i)}]
       IN  Commit(LoopHead(w0, runs[r].i + 1), FALSE)

\* A Stop that shows the final step and leaves the flag as it is.
handleStop_KeepsFlag ==
    /\ isAiModalOpen
    /\ modal.step = "processing"
    /\ modal' = [modal EXCEPT !.step = DoneStep(variant)]
    /\ UNCHANGED <<variant, fault, budget, tickets, isAiModalOpen, aiResults,
                   isRunningRef, runs, pending, cvars>>

\* Click on Stop.
handleStop ==
    /\ isAiModalOpen
    /\ modal.step = "processing"
    /\ isRunningRef' = FALSE
    /\ modal' = [modal EXCEPT !.step = DoneStep(variant)]
    /\ runs' = [q \in DOMAIN runs |->
                 IF isRunningRef THEN Cancelled(runs[q], "handleStop") ELSE runs[q]]
    /\ UNCHANGED <<variant, fault, budget, tickets, isAiModalOpen, aiResults, pending, cvars>>

\* Click on New Analysis (part_001, AiAnalysisModal.tsx).
NewAnalysis ==
    /\ isAiModalOpen
    /\ variant # "upsert"
    /\ modal.step = "results"
    /\ modal' = [modal EXCEPT !.step = "config"]
    /\ UNCHANGED <<variant, fault, budget, tickets, isAiModalOpen, aiResults,
                   isRunningRef, runs, pending, cvars>>

\* A close button that also empties the results.
onClose_Clears ==
    /\ isAiModalOpen
    /\ isAiModalOpen' = FALSE
    /\ aiResults' = <<>>
    /\ modal' = [modal EXCEPT !.results = <<>>]
    /\ UNCHANGED <<variant, fault, budget, tickets, isRunningRef, runs, pending, cvars>>

\* The X of the header, Cancel, or View Results: the modal renders null.
onClose ==
    /\ isAiModalOpen
    /\ isAiModalOpen' = FALSE
    /\ UNCHANGED <<variant, fault, budget, tickets, aiResults, modal, isRunningRef,
                   runs, pending, cvars>>

\* An effect on isOpen that puts the configuration back to its defaults too.
OpenModal_ResetsConfig ==
    /\ ~isAiModalOpen
    /\ Len(tickets) > 0
    /\ isAiModalOpen' = TRUE
    /\ modal' = [modal EXCEPT !.step = "config", !.results = <<>>, !.progress = 0,
                              !.processedCount = 0, !.errorCount = 0,
                              !.authError = "", !.config = DefaultConfig(variant)]
    /\ isRunningRef' = FALSE
    /\ runs' = [q \in DOMAIN runs |->
                 IF isRunningRef THEN Cancelled(runs[q], "OpenModal") ELSE runs[q]]
    /\ UNCHANGED <<variant, fault, budget, tickets, aiResults, pending, cvars>>

\* Dashboard: Run AI Analysis; the modal's effect on isOpen resets it.
OpenModal ==
    /\ ~isAiModalOpen
    /\ Len(tickets) > 0
    /\ isAiModalOpen' = TRUE
    /\ modal' = [modal EXCEPT !.step = "config", !.results = <<>>, !.progress = 0,
                              !.processedCount = 0, !.errorCount = 0,
                              !.authError = ""]
    /\ isRunningRef' = FALSE
    /\ runs' = [q \in DOMAIN runs |->
                 IF isRunningRef THEN Cancelled(runs[q], "OpenModal") ELSE runs[q]]
    /\ UNCHANGED <<variant, fault, budget, tickets, aiResults, pending, cvars>>

Next ==
    \/ startAnalysis
    \/ \E r \in DOMAIN runs : AfterValidateApiKey(r)
    \/ \E r \in DOMAIN runs : AfterGetTicketHistory(r)
    \/ \E r \in DOMAIN runs : AfterAnalyzeTicket(r)
    \/ \E r \in DOMAIN runs : AfterSetTimeout(r)
    \/ handleStop
    \/ NewAnalysis
    \/ onClose
    \/ OpenModal

Spec == Init /\ [][Next]_vars

\* The same program on its longest list, with Start clicked more than once.
InitAgain ==
    /\ InitMain(AgainRuns, AgainFailures, {Settled(FALSE, ServerFailure, "")},
                {[k \in 1..MaxTickets |-> k]})
    /\ cErr = NoErr
    /\ cOut = NoVerdict
    /\ json = NoBody
    /\ token = NoToken

SpecAgain == InitAgain /\ [][Next]_vars

\* part_000 with Start clicked more than once and a provider call that
\* fails: the runs hand different results for one ticket to the dashboard.
InitSink ==
    /\ InitMain(AgainRuns, SinkFailures, {Settled(FALSE, ServerFailure, "")},
                {[k \in 1..MaxTickets |-> k]})
    /\ variant = "upsert"
    /\ cErr = NoErr
    /\ cOut = NoVerdict
    /\ json = NoBody
    /\ token = NoToken

\* The handlers part_000 has (it has no New Analysis button).
NextSink ==
    \/ startAnalysis
    \/ \E r \in DOMAIN runs : AfterValidateApiKey(r)
    \/ \E r \in DOMAIN runs : AfterGetTicketHistory(r)
    \/ \E r \in DOMAIN runs : AfterAnalyzeTicket(r)
    \/ \E r \in DOMAIN runs : AfterSetTimeout(r)
    \/ handleStop
    \/ onClose
    \/ OpenModal

SpecSink == InitSink /\ [][NextSink]_vars

\* The same program with providers that never fail, on short lists and on
\* one list longer than the slice.
InitQuiet ==
    /\ InitMain(MaxRuns, 0, {Settled(FALSE, ServerFailure, "")},
                TicketLists \cup {LongList})
    /\ cErr = NoErr
    /\ cOut = NoVerdict
    /\ json = NoBody
    /\ token = NoToken

SpecQuiet == InitQuiet /\ [][Next]_vars

(***************************************************************************)
(* The Throughput (RPM) field of the configuration step.                   *)
(***************************************************************************)
Digits == "0123456789"

\* The value of the digit c, or -1 when c is no digit.
DigitValue(c) ==
    IF \E d \in 0..9 : SubSeq(Digits, d + 1, d + 1) = c
    THEN CHOOSE d \in 0..9 : SubSeq(Digits, d + 1, d + 1) = c
    ELSE -1

NaN == [nan |-> TRUE, value |-> 0]

\* The longest prefix of digits of s, read in base 10 after acc.
RECURSIVE ParseDigits(_, _, _)
ParseDigits(s, acc, seen) ==
    IF Len(s) = 0 \/ DigitValue(SubSeq(s, 1, 1)) < 0
    THEN IF seen THEN [nan |-> FALSE, value |-> acc] ELSE NaN
    ELSE ParseDigits(SubSeq(s, 2, Len(s)), 10 * acc + DigitValue(SubSeq(s, 1, 1)), TRUE)

\* parseInt(text): an optional sign, then digits up to the first character
\* that is none; NaN without a digit.  The texts carry no leading blanks.
parseInt(text) ==
    LET sign == IF Len(text) > 0 THEN SubSeq(text, 1, 1) ELSE ""
        body == IF sign \in {"-", "+"} THEN SubSeq(text, 2, Len(text)) ELSE text
        p    == ParseDigits(body, 0, FALSE)
    IN  IF sign = "-" THEN [p EXCEPT !.value = -@] ELSE p

\* parseInt(e.target.value) || 10: NaN and 0 are falsy.
OrTen(p) == IF p.nan \/ p.value = 0 THEN 10 ELSE p.value

\* What the field may hold when onChange fires (min and max of the field
\* bound the spinner, not the text).
RpmTexts == {"", "0", "-5", "abc", "1", "7", "1.5", "600", "601"}

\* onChange of the RPM field: setConfig({...config, rpm: parseInt(..) || 10})
onChangeRpm(text) ==
    /\ isAiModalOpen
    /\ modal.step = "config"
    /\ modal' = [modal EXCEPT !.config.rpm = OrTen(parseInt(text))]
    /\ UNCHANGED <<variant, fault, budget, tickets, isAiModalOpen, aiResults,
                   isRunningRef, runs, pending, cvars>>

InitRpm ==
    /\ InitMain(MaxRuns, 0, {Settled(FALSE, ServerFailure, "")},
                {[k \in 1..MaxTickets |-> k]})
    /\ cErr = NoErr
    /\ cOut = NoVerdict
    /\ json = NoBody
    /\ token = NoToken

NextRpm ==
    \/ Next
    \/ \E text \in RpmTexts : onChangeRpm(text)

\* The run of Spec with the RPM field in use, no provider failure.
SpecRpm == InitRpm /\ [][NextRpm]_vars

(***************************************************************************)
(* The search form of the dashboard.  The modal covers the page while it   *)
(* is open, so the form is used with the modal closed; the answer comes    *)
(* when it comes.                                                          *)
(***************************************************************************)
SearchResults == {<<>>, <<3>>}

SearchOutcomes == {[ok |-> TRUE, searchResults |-> list] : list \in SearchResults}
                  \cup {[ok |-> FALSE, searchResults |-> <<>>]}

\* Dashboard.handleSearch up to its await; Apply Filters is disabled while
\* a search is pending.
handleSearch ==
    /\ ~isAiModalOpen
    /\ Call(0, "searchTickets", 0) \notin pending
    /\ aiResults' = <<>>
    /\ pending' = pending \cup {Call(0, "searchTickets", 0)}
    /\ UNCHANGED <<variant, fault, budget, tickets, isAiModalOpen, modal,
                   isRunningRef, runs, cvars>>

\* ApiService.searchTickets settles: setTickets(response.searchResults), or
\* the error banner.
AfterSearchTickets(out) ==
    /\ Call(0, "searchTickets", 0) \in pending
    /\ pending' = pending \ {Call(0, "searchTickets", 0)}
    /\ tickets' = IF out.ok THEN out.searchResults ELSE tickets
    /\ UNCHANGED <<variant, fault, budget, isAiModalOpen, aiResults, modal,
                   isRunningRef, runs, cvars>>

InitSearch ==
    /\ InitMain(MaxRuns, 0, {Settled(FALSE, ServerFailure, "")},
                {[k \in 1..MaxTickets |-> k]})
    /\ cErr = NoErr
    /\ cOut = NoVerdict
    /\ json = NoBody
    /\ token = NoToken

NextSearch ==
    \/ Next
    \/ handleSearch
    \/ \E out \in SearchOutcomes : AfterSearchTickets(out)

\* The run of Spec with the search form in use, no provider failure.
SpecSearch == InitSearch /\ [][NextSearch]_vars

(***************************************************************************)
(* The classifier on its own: a failure drawn from the statuses and        *)
(* messages below reaches the catch block of a loop that is at the first   *)
(* of two items.                                                           *)
(***************************************************************************)
ClassifierStatuses == {0, 401, 429, 500}
ClassifierMessages ==
    {"", "boom", "Invalid API key", "API Key is missing", "Unauthorized",
     "Quota exceeded", "quota", "Too Many Requests", "Resource exhausted",
     "Rate limit reached", "HTTP 401", "error 429"}

InFlight(v) ==
    [id |-> 1, modal |-> [ModalInit(v) EXCEPT !.step = "processing"], ref |-> TRUE,
     ai |-> <<>>, pend |-> {},
     run |-> [NewRun(DefaultConfig(v), <<1, 2>>) EXCEPT
                !.pc = "analyzeTicket", !.started = TRUE,
                !.ticketsToProcess = <<1, 2>>, !.fetched = 1, !.analyzed = 1,
                !.delay = delayMs(DefaultConfig(v).rpm)]]

InitClassify ==
    /\ InitMain(0, 0, {Settled(FALSE, ServerFailure, "")}, {<<1, 2>>})
    /\ cErr \in {Err(st, m) : st \in ClassifierStatuses, m \in ClassifierMessages}
    /\ cOut = NoVerdict
    /\ json = NoBody
    /\ token = NoToken

\* The catch block runs on cErr.
Classify ==
    /\ cOut = NoVerdict
    /\ LET w == Catch(InFlight(variant), cErr, 40) IN
       cOut' = [stopped |-> w.run.pc = "returned",
                class   |-> IF w.run.pc = "returned" THEN w.run.fatal ELSE "Recoverable",
                error   |-> ErrorOf(w.run.emitted[1][2]),
                alert   |-> w.modal.authError]
    /\ UNCHANGED <<mvars, cErr, json, token>>

SpecClassify == InitClassify /\ [][Classify]_vars

(***************************************************************************)
(* What a run shows to its caller.                                         *)
(***************************************************************************)
Returned(run) == run.started /\ run.pc = "returned"

PendingOf(r) == {c \in pending : c.run = r}

\* The items a run is to process: every ticket (part_000), or the first
\* SliceLimit of them.
ItemCount(run) ==
    IF variant = "upsert" THEN Len(run.tickets)
    ELSE Min(Len(run.tickets), SliceLimit)

\* The reason a synthetic result carries in its error field.
ReasonOfResult(res) ==
    CASE ErrorOf(res) \in {"401 Unauthorized", "Critical Auth Error"} -> "AuthFailed"
      [] ErrorOf(res) \in {"429 Quota Exceeded", "Rate Limit Exceeded (429)"} -> "RateLimited"
      [] OTHER -> ""

\* The reason the modal reports in authError.
ReasonOfAlert(alert) ==
    CASE alert \in {"Analysis stopped: Auth failed.",
                    "Analysis stopped: Authentication failed."} -> "AuthFailed"
      [] alert \in {"Analysis paused: Rate limit exceeded.",
                    "Analysis stopped: API Quota/Rate limit exceeded. Please try again later or increase the RPM delay."}
           -> "RateLimited"
      [] OTHER -> ""

\* The status the finished modal presents: interrupted when authError is
\* set, complete otherwise.
TerminalStatus(alert) == IF alert # "" THEN "Stopped" ELSE "Completed"

(***************************************************************************)
(* C1.  Once a failure is classified fatal, the loop that produced it has  *)
(* returned: it holds no pending provider call or timer, and its counts of *)
(* history fetches, analysis calls and throttle sleeps are those it had    *)
(* when the fatal branch was entered, the fetch of the failed item being   *)
(* its last.                                                               *)
(***************************************************************************)
C1_FatalStopsTheLoop ==
    \A r \in DOMAIN runs :
        LET run == runs[r] IN
        run.fatal # "" =>
            /\ run.pc = "returned"
            /\ PendingOf(r) = {}
            /\ <<run.fetched, run.analyzed, run.slept>> = run.atFatal
            /\ run.fetched = run.i + 1
            /\ run.analyzed <= run.i + 1

\* A fatal failure on an item that is not the last.
C1_FatalWithItemsLeft ==
    \E r \in DOMAIN runs :
        /\ runs[r].fatal # ""
        /\ runs[r].pc = "returned"
        /\ Len(runs[r].emitted) < ItemCount(runs[r])

(***************************************************************************)
(* C2.  If item k < N fails with status 401 or 429 and no earlier item did *)
(* so, exactly k results are emitted, the k-th carries the reason (auth or *)
(* rate limit), the run has returned and the modal reports that reason.    *)
(***************************************************************************)
C2_FatalOnItemK ==
    \A r \in DOMAIN runs :
        \A k \in 1..Len(runs[r].emitted) :
            LET run    == runs[r]
                err    == run.emitted[k][3]
                reason == IF err.status = 401 THEN "AuthFailed" ELSE "RateLimited"
            IN  (/\ err.status \in {401, 429}
                 /\ k < ItemCount(run)
                 /\ \A j \in 1..(k - 1) : run.emitted[j][3].status \notin {401, 429})
                => /\ Len(run.emitted) = k
                   /\ ReasonOfResult(run.emitted[k][2]) = reason
                   /\ run.pc = "returned"
                   /\ ReasonOfAlert(run.exit.authError) = reason

(***************************************************************************)
(* C3.  A failure the catch block takes as recoverable leaves exactly one  *)
(* synthetic result for its item, in the item's place, whose error is the  *)
(* failure's message; the loop then goes on to the next item (it sleeps,   *)
(* or has the next item's calls in flight); and a run that returns with    *)
(* no fatal failure and no cancellation has emitted one result per item.   *)
(* `unknown' is the error a failure without a message is reported with.    *)
(***************************************************************************)
RecoverableFailureHandled(unknown) ==
    \A r \in DOMAIN runs :
        LET run == runs[r] IN
        /\ \A k \in 1..Len(run.emitted) :
              LET err == run.emitted[k][3]
                  res == run.emitted[k][2]
              IN  (err # NoErr /\ classify(variant, err) = "Recoverable") =>
                    /\ run.emitted[k][1] = k - 1
                    /\ res.ticketId = run.ticketsToProcess[k]
                    /\ res.score = 0
                    /\ ErrorOf(res) = (IF err.message = "" THEN unknown ELSE err.message)
                    /\ (k < ItemCount(run) /\ run.cancel = NoCancel /\ Len(run.emitted) = k)
                       => \/ run.pc = "setTimeout" /\ run.i = k - 1
                          \/ run.pc \in {"getTicketHistory", "analyzeTicket"} /\ run.i = k
        /\ (Returned(run) /\ run.fatal = "" /\ run.cancel = NoCancel)
           => Len(run.emitted) = ItemCount(run)

\* C3 as claimed: the error of the synthetic result is the failure's
\* message, whatever the message.
C3_ErrorIsTheMessage == RecoverableFailureHandled("")

\* C3 as the code has it: a failure without a message is reported as
\* "Unknown error"; N is the number of items the run is to process.
C3_ErrorIsTheMessageOrUnknown == RecoverableFailureHandled("Unknown error")

\* A run that met a failure without a message on its first item, went on,
\* and returned with a result for every item.
C3_SilentFailureThenNext ==
    \E r \in DOMAIN runs :
        /\ Returned(runs[r])
        /\ runs[r].cancel = NoCancel
        /\ Len(runs[r].emitted) = 2
        /\ runs[r].emitted[1][3] = SilentFailure
        /\ ErrorOf(runs[r].emitted[1][2]) = "Unknown error"

(***************************************************************************)
(* C4.  When no provider call has failed (no history fetch, no analysis   *)
(* call and no validation probe), a run under whose loop the flag was not  *)
(* cleared returns with n results, the k-th for item k, none of them a     *)
(* failure, and the modal presents it as completed.                        *)
(***************************************************************************)
NoFailure(run) == \A k \in 1..Len(run.emitted) : run.emitted[k][3] = NoErr

\* validateApiKey answered false: startAnalysis returned before its loop.
ProbeFailed(run) == ~run.started /\ run.pc = "returned"

NoProviderFailure ==
    \A q \in DOMAIN runs : NoFailure(runs[q]) /\ ~ProbeFailed(runs[q])

CompletedWith(run, n) ==
    /\ Len(run.emitted) = n
    /\ \A k \in 1..Len(run.emitted) :
          /\ run.emitted[k][1] = k - 1
          /\ ErrorOf(run.emitted[k][2]) = ""
    /\ run.exit.step = DoneStep(variant)
    /\ TerminalStatus(run.exit.authError) = "Completed"

\* C4 as claimed: n is the number of input tickets.
C4_OnePerInputTicket ==
    \A r \in DOMAIN runs :
        (NoProviderFailure /\ Returned(runs[r]) /\ runs[r].cancel = NoCancel)
        => CompletedWith(runs[r], Len(runs[r].tickets))

\* C4 as the code has it: n is the number of items the run is to process,
\* which is the first SliceLimit tickets in the append variants.
C4_OnePerProcessedItem ==
    \A r \in DOMAIN runs :
        (NoProviderFailure /\ Returned(runs[r]) /\ runs[r].cancel = NoCancel)
        => CompletedWith(runs[r], ItemCount(runs[r]))

\* An undisturbed run over more tickets than the slice keeps.
C4_LongListCompleted ==
    \E r \in DOMAIN runs :
        /\ Returned(runs[r])
        /\ runs[r].cancel = NoCancel
        /\ Len(runs[r].tickets) > SliceLimit
        /\ Len(runs[r].emitted) = SliceLimit

(***************************************************************************)
(* C5.  The results of a run are emitted in input order without gaps: the  *)
(* k-th result a run hands to the sink is the result of its k-th item.     *)
(***************************************************************************)
C5_EmittedInInputOrder ==
    \A r \in DOMAIN runs :
        \A k \in 1..Len(runs[r].emitted) :
            /\ runs[r].emitted[k][1] = k - 1
            /\ k <= Len(runs[r].ticketsToProcess)

\* A failure on the first item followed by a result for the second, in a
\* run that was stopped on the way.
C5_MixedRun ==
    \E r \in DOMAIN runs :
        /\ Len(runs[r].emitted) = 2
        /\ runs[r].emitted[1][3] # NoErr
        /\ runs[r].emitted[2][3] = NoErr
        /\ runs[r].cancel.by = "handleStop"

(***************************************************************************)
(* C6.  A run has at most one provider call or timer pending; while the    *)
(* history fetch or the analysis call of item i is pending, every earlier  *)
(* item has its result and no later item has been fetched.                 *)
(***************************************************************************)
C6_OneItemInFlight ==
    \A r \in DOMAIN runs :
        LET run == runs[r] IN
        /\ Cardinality(PendingOf(r)) <= 1
        /\ run.analyzed <= run.fetched
        /\ run.fetched <= Len(run.emitted) + 1
        /\ \A c \in PendingOf(r) :
              c.call \in {"getTicketHistory", "generateContent"} =>
                  /\ c.arg = run.ticketsToProcess[run.i + 1]
                  /\ Len(run.emitted) = run.i
                  /\ run.fetched = run.i + 1

\* The analysis call of the second item is in flight.
C6_SecondItemInFlight ==
    \E r \in DOMAIN runs :
        /\ runs[r].i = 1
        /\ Call(r, "generateContent", runs[r].ticketsToProcess[2]) \in pending

(***************************************************************************)
(* C7.  When Stop is clicked while a loop sleeps after its item k, that    *)
(* loop emits exactly k results and starts no further history fetch or     *)
(* analysis call.                                                          *)
(***************************************************************************)
C7_StopBetweenItems ==
    \A r \in DOMAIN runs :
        LET run == runs[r]
            k   == run.cancel.i + 1
        IN  (run.cancel.by = "handleStop" /\ run.cancel.pc = "setTimeout") =>
                /\ Len(run.emitted) = k
                /\ run.fetched = k
                /\ run.analyzed <= k

(***************************************************************************)
(* C8.  When Stop is clicked while the history fetch or the analysis call  *)
(* of item k is pending, the call is left to settle and the result of item *)
(* k is emitted, and no later item is ever dispatched.                     *)
(***************************************************************************)
C8_StopInFlight ==
    \A r \in DOMAIN runs :
        LET run == runs[r]
            k   == run.cancel.i + 1
        IN  (/\ run.cancel.by = "handleStop"
             /\ run.cancel.pc \in {"getTicketHistory", "analyzeTicket"}) =>
                /\ run.fetched = k
                /\ Len(run.emitted) <= k
                /\ run.pc \in {"getTicketHistory", "analyzeTicket"} => PendingOf(r) # {}
                /\ run.pc = "returned" => Len(run.emitted) = k

(***************************************************************************)
(* C9.  A run that has returned is presented as completed if and only if   *)
(* it emitted a result for every item and met no fatal failure; in         *)
(* particular a run that Stop ended before its last item is not presented  *)
(* as completed.                                                           *)
(***************************************************************************)
C9_CompletedIffAllItems ==
    \A r \in DOMAIN runs :
        LET run == runs[r] IN
        Returned(run) =>
            ( TerminalStatus(run.exit.authError) = "Completed"
              <=> (Len(run.emitted) = ItemCount(run) /\ run.fatal = "") )

(***************************************************************************)
(* C10.  A failure with status 401, or whose message contains "api key"    *)
(* or "unauthorized" in any letter case, stops the loop as an              *)
(* authentication failure, also when it matches a rate-limit signal.       *)
(***************************************************************************)
C10_AuthRuleFirst ==
    LET msg == toLowerCase(cErr.message) IN
    (/\ cOut # NoVerdict
     /\ \/ cErr.status = 401
        \/ includes(msg, "api key")
        \/ includes(msg, "unauthorized"))
    => /\ cOut.stopped
       /\ cOut.class = "AuthFailed"

(***************************************************************************)
(* The rules of the classifier as section 4.2 of the design states them,   *)
(* on the failure under classification.                                    *)
(***************************************************************************)
MatchesAny(err, words) ==
    \E p \in words : includes(toLowerCase(err.message), p)

AuthSignal(err) ==
    err.status = 401 \/ MatchesAny(err, {"api key", "unauthorized"})

RateLimitSignal(err) ==
    \/ err.status = 429
    \/ MatchesAny(err, {"quota", "rate limit", "too many requests", "resource exhausted"})

(***************************************************************************)
(* C11.  A failure that does not match the auth rule and has status 429,   *)
(* or a message containing "quota", "rate limit", "too many requests" or   *)
(* "resource exhausted" in any letter case, stops the loop as a rate-limit *)
(* failure.                                                                *)
(***************************************************************************)
C11_RateLimitRule ==
    (cOut # NoVerdict /\ ~AuthSignal(cErr) /\ RateLimitSignal(cErr))
    => /\ cOut.stopped
       /\ cOut.class = "RateLimited"

(***************************************************************************)
(* C12.  The catch block gives every failure one of the three verdicts,    *)
(* and a failure that matches no signal is recoverable: the loop goes on   *)
(* and the result carries the failure's message.  `signals' are the        *)
(* substrings of the message that count besides the status.                *)
(***************************************************************************)
OtherwiseRecoverable(signals) ==
    cOut # NoVerdict =>
        /\ cOut.class \in {"AuthFailed", "RateLimited", "Recoverable"}
        /\ cOut.stopped <=> cOut.class # "Recoverable"
        /\ (cErr.status \notin {401, 429} /\ ~MatchesAny(cErr, signals))
           => /\ cOut.class = "Recoverable"
              /\ cOut.error = (IF cErr.message = "" THEN "Unknown error"
                               ELSE cErr.message)

IsHistoryFailure(err) == includes(err.message, "Failed to fetch history")

\* Every emitted failure that Is(_) holds of was handled as recoverable.
HandledAsRecoverable(Is(_)) ==
    \A r \in DOMAIN runs :
        \A k \in 1..Len(runs[r].emitted) :
            LET e == runs[r].emitted[k] IN
            Is(e[3]) =>
                /\ e[2].error = e[3].message
                /\ ~(runs[r].fatal # "" /\ k = Len(runs[r].emitted))
                /\ (Returned(runs[r]) /\ runs[r].cancel = NoCancel)
                   => k < Len(runs[r].emitted) \/ k = ItemCount(runs[r])

C13_HistoryFailureRecoverable == HandledAsRecoverable(IsHistoryFailure)

(***************************************************************************)
(* C14.  An answer of generateContent that carries an empty text, or a     *)
(* text JSON.parse rejects, is a recoverable failure of the item: the item *)
(* gets the synthetic failure result with the failure's message, and the   *)
(* loop goes on.                                                           *)
(***************************************************************************)
IsPayloadFailure(err) ==
    \/ err = EmptyResponse
    \/ \E t \in ResponseTexts \ {GoodJson, ""} : err = JSONparse(t).err

C14_BadPayloadRecoverable == HandledAsRecoverable(IsPayloadFailure)

(***************************************************************************)
(* C15.  A run whose configuration holds an integer rpm of at least 1      *)
(* throttles with the interval max(100, 60000 / rpm) ms: 60000 / rpm up to *)
(* rpm 600, and 100 from there on.                                         *)
(***************************************************************************)
C15_IntervalOfRpm ==
    \A r \in DOMAIN runs :
        LET rpm == runs[r].config.rpm
            ms  == runs[r].delay
        IN  (runs[r].started /\ rpm >= 1) =>
                /\ ms.den > 0
                /\ IF rpm >= 600 THEN ms.num = 100 * ms.den
                   ELSE ms.num * rpm = 60000 * ms.den

\* A run entered its loop with rpm 7: an interval of 8571.43 ms.
C15_RunWithRpm7 ==
    \E r \in DOMAIN runs :
        /\ runs[r].started
        /\ runs[r].config.rpm = 7
        /\ runs[r].delay.num * 7 = 60000 * runs[r].delay.den

(***************************************************************************)
(* C16.  The wait computed after an item is max(0, interval - elapsed):    *)
(* it is never negative and never longer than the interval, and when the   *)
(* item took the interval or longer it is 0 and no timer is set.           *)
(***************************************************************************)
C16_WaitIsTheRest ==
    \A r \in DOMAIN runs :
        LET t       == runs[r].throttle
            d       == runs[r].delay
            elapsed == Rat(t.elapsedTime, 1)
            asleep  == runs[r].pc = "setTimeout" /\ runs[r].i = t.i
        IN  t # NoThrottle =>
                /\ t.timeToWait.den > 0 /\ t.timeToWait.num >= 0
                /\ ~RatLess(d, t.timeToWait)
                /\ IF RatLess(elapsed, d)
                   THEN /\ t.timeToWait.num * d.den + t.elapsedTime * d.den * t.timeToWait.den
                             = d.num * t.timeToWait.den
                   ELSE /\ t.timeToWait.num = 0
                        /\ ~asleep
                /\ asleep => t.timeToWait.num > 0

\* An item took exactly the interval of 6000 ms: no wait, the next item began.
C16_TookTheInterval ==
    \E r \in DOMAIN runs :
        /\ runs[r].throttle # NoThrottle
        /\ runs[r].throttle.elapsedTime = 6000
        /\ runs[r].delay.num = 6000 * runs[r].delay.den
        /\ runs[r].throttle.timeToWait.num = 0
        /\ runs[r].i = runs[r].throttle.i + 1

(***************************************************************************)
(* C18.  Whatever is entered in the RPM field, a run starts with an        *)
(* integer rpm of at least 1.                                              *)
(***************************************************************************)
C18_RpmAtLeastOne ==
    \A r \in DOMAIN runs : runs[r].config.rpm \in Nat \ {0}

(***************************************************************************)
(* C19.  Whatever rpm the RPM field hands to a run, the run's throttle     *)
(* interval is at least 100 ms (so never negative).                        *)
(***************************************************************************)
C19_IntervalAtLeast100 ==
    \A r \in DOMAIN runs :
        runs[r].started =>
            /\ runs[r].delay.den > 0
            /\ runs[r].delay.num >= 100 * runs[r].delay.den

\* Runs entered their loop with rpm 601 or a negative rpm, at 100 ms.
C19_FloorReached ==
    \E r \in DOMAIN runs :
        /\ runs[r].started
        /\ runs[r].config.rpm \in {601, -5}
        /\ runs[r].delay.num = 100 * runs[r].delay.den

(***************************************************************************)
(* C17.  A loop sets its throttle timer only after an item that is not the *)
(* last and did not take the fatal branch, and never once its cancellation *)
(* was signalled: a timer is pending only before the last item of a run    *)
(* with no fatal failure, a run whose item k was fatal has set at most     *)
(* k - 1 timers, a run of N items at most N - 1, and a run sets no timer   *)
(* after Stop was clicked under it.                                        *)
(***************************************************************************)
C17_SleepOnlyBetweenItems ==
    \A r \in DOMAIN runs :
        LET run == runs[r]
            N   == Len(run.ticketsToProcess)
        IN  /\ run.pc = "setTimeout" =>
                /\ Call(r, "setTimeout", run.i) \in pending
                /\ run.i < N - 1
                /\ run.fatal = ""
            /\ run.slept <= Max(0, N - 1)
            /\ run.slept <= Len(run.emitted)
            /\ run.fatal # "" =>
                /\ run.slept <= Len(run.emitted) - 1
                /\ run.slept = run.atFatal[3]
            /\ run.cancel.by = "handleStop" => run.slept = run.cancel.slept

(***************************************************************************)
(* C20.  While the processing step is on screen, the count in "Processed   *)
(* n of m" is at most the total it is shown against, the length of the     *)
(* ticket list the modal is given.                                         *)
(***************************************************************************)
C20_ProgressWithinTotal ==
    (isAiModalOpen /\ modal.step = "processing") => modal.progress <= Len(tickets)

(***************************************************************************)
(* C21.  When a run returns, the count of processed items the modal holds  *)
(* (progress) equals the total it is shown against (the length of the      *)
(* run's ticket list) exactly when the modal presents the run as completed *)
(* or the flag was cleared under the loop and the loop still handled its   *)
(* last item without a fatal failure.                                      *)
(***************************************************************************)
CancelledAtBoundary(run) ==
    /\ run.cancel # NoCancel
    /\ run.fatal = ""
    /\ Len(run.emitted) = Len(run.tickets)

C21_AllProcessedIffCompleted ==
    \A r \in DOMAIN runs :
        LET run == runs[r] IN
        Returned(run) =>
            ( run.exit.progress = Len(run.tickets)
              <=> \/ TerminalStatus(run.exit.authError) = "Completed"
                  \/ CancelledAtBoundary(run) )

(***************************************************************************)
(* C22.  Every step in which a run hands a result to the sink, the result  *)
(* of a fatal failure included, leaves the modal's count of processed      *)
(* items (progress) equal to the number of results the run has emitted.    *)
(***************************************************************************)
C22_ProgressAfterEachResult ==
    [][\A r \in DOMAIN runs :
          Len(runs'[r].emitted) > Len(runs[r].emitted)
          => modal'.progress = Len(runs'[r].emitted)]_vars

(***************************************************************************)
(* C23.  A run enters its loop only in the step that settles its           *)
(* validation probe; and the step in which the probe fails leaves the run  *)
(* returned with no history fetch and no analysis call made, the running   *)
(* flag as it was, and the modal in the configuration step showing the     *)
(* connection error.                                                       *)
(***************************************************************************)
EntersLoop(r) ==
    /\ runs'[r].started
    /\ r \in DOMAIN runs => ~runs[r].started

ProbeFails(r) ==
    /\ r \in DOMAIN runs
    /\ ~ProbeFailed(runs[r])
    /\ ProbeFailed(runs'[r])

C23_ProbeBeforeFirstItem ==
    [][\A r \in DOMAIN runs' :
          /\ EntersLoop(r) => Call(r, "validateApiKey", 0) \in pending
          /\ ProbeFails(r) =>
                /\ runs'[r].fetched = 0
                /\ runs'[r].analyzed = 0
                /\ {c \in pending' : c.run = r} = {}
                /\ isRunningRef' = isRunningRef
                /\ modal'.step = "config"
                /\ modal'.authError = ConnectionFailed(variant)]_vars

(***************************************************************************)
(* C24.  Every step in which a history fetch or an analysis call of a run  *)
(* fails (it rejects, or its answer is empty or does not parse) adds one   *)
(* synthetic failure result of that run to the sink, and leaves the run    *)
(* either going on (the next fetch in flight, or asleep) or returned with  *)
(* the modal in its final step and the flag cleared: startAnalysis does    *)
(* not reject.                                                             *)
(***************************************************************************)
ConvertsFailure(r) ==
    LET before == runs[r].emitted
        after  == runs'[r].emitted
    IN  /\ Len(after) = Len(before) + 1
        /\ after[Len(after)][3] # NoErr
        /\ ErrorOf(after[Len(after)][2]) # ""
        /\ after[Len(after)][2].score = 0
        /\ \/ runs'[r].pc \in {"getTicketHistory", "setTimeout"}
           \/ /\ runs'[r].pc = "returned"
              /\ modal'.step = DoneStep(variant)
              /\ ~isRunningRef'

C24_NoFailureEscapes ==
    [][budget'.failures < budget.failures
       => \E r \in DOMAIN runs : ConvertsFailure(r)]_vars

\* A run whose first item failed in the history fetch and went on, and
\* whose second item failed with a quota error and ended the run.
C24_FailedTwiceAndReturned ==
    \E r \in DOMAIN runs :
        /\ Len(runs[r].emitted) = 2
        /\ runs[r].emitted[1][3] = HistoryFailure
        /\ runs[r].emitted[2][3] = QuotaFailure
        /\ runs[r].pc = "returned"
        /\ budget.failures = MaxFailures - 2

(***************************************************************************)
(* C25.  In part_000 the dashboard's sink is keyed by ticket id: every     *)
(* step in which a run emits a result leaves that result under its ticket  *)
(* id, whatever was there before, and every other entry as it was; and     *)
(* every entry is filed under the id it carries.                           *)
(***************************************************************************)
Upserts(r) ==
    LET after == runs'[r].emitted
        res   == after[Len(after)][2]
    IN  Len(after) = Len(runs[r].emitted) + 1 =>
            /\ DOMAIN aiResults' = DOMAIN aiResults \cup {res.ticketId}
            /\ aiResults'[res.ticketId] = res
            /\ \A k \in DOMAIN aiResults \ {res.ticketId} : aiResults'[k] = aiResults[k]

C25_KeyedUpsert ==
    [][/\ \A r \in DOMAIN runs : Upserts(r)
       /\ \A k \in DOMAIN aiResults' : aiResults'[k].ticketId = k]_vars

\* An earlier run filed a failure for ticket 1, a later run an analysis:
\* the sink holds the analysis, and the result of ticket 2 beside it.
C25_Overwritten ==
    \E r1, r2 \in DOMAIN runs :
        /\ r1 < r2
        /\ Len(runs[r1].emitted) >= 1 /\ Len(runs[r2].emitted) >= 1
        /\ runs[r1].emitted[1][3] = ServerFailure
        /\ runs[r2].emitted[1][3] = NoErr
        /\ DOMAIN aiResults = {1, 2}
        /\ aiResults[1] = runs[r2].emitted[1][2]

(***************************************************************************)
(* C26.  The sink (the dashboard's aiResults in part_000, the modal's      *)
(* results in the other variants) changes only in a step in which a run    *)
(* emits a result, or in one of the resets that empty it.  `resets' tells  *)
(* whether the resets of the application are allowed for.                  *)
(***************************************************************************)
Sink == IF variant = "upsert" THEN aiResults ELSE modal.results

SomeRunEmits ==
    \E r \in DOMAIN runs : Len(runs'[r].emitted) > Len(runs[r].emitted)

\* handleSearch was called: setAiResults({}).
SearchBegins ==
    Call(0, "searchTickets", 0) \in pending' \ pending

\* The modal was opened, or a run passed its probe: setResults([]).
ModalResets ==
    \/ isAiModalOpen' /\ ~isAiModalOpen
    \/ \E r \in DOMAIN runs' : EntersLoop(r)

SinkChangesOnlyBy(resets) ==
    Sink' # Sink =>
        \/ SomeRunEmits
        \/ /\ resets
           /\ Sink' = <<>>
           /\ IF variant = "upsert" THEN SearchBegins ELSE ModalResets

\* C26 as claimed: the runs' emissions are the only writers.
C26_SinkSingleWriter == [][SinkChangesOnlyBy(FALSE)]_vars

\* C26 as the code has it: a new search empties the keyed sink, opening
\* the modal and entering a run's loop empty the modal's list.
C26_SinkWriterAndResets == [][SinkChangesOnlyBy(TRUE)]_vars

\* A run has emitted a result and the sink is empty.
C26_SinkEmptiedAfterResult ==
    /\ Sink = <<>>
    /\ \E r \in DOMAIN runs : Len(runs[r].emitted) >= 1

(***************************************************************************)
(* The configuration form in use while a run is under way: the fields are *)
(* on screen in the config step, during the probe and again after a close  *)
(* and re-open under a suspended loop; the search answers when it answers. *)
(***************************************************************************)
\* AiService.getModels(): the options of the model select.
getModels == {"gemini-2.5-flash", "gemini-2.5-flash-lite"}

\* onChange of the model select: setConfig({...config, model: e.target.value})
onChangeModel(model) ==
    /\ isAiModalOpen
    /\ modal.step = "config"
    /\ modal.config.model # model
    /\ modal' = [modal EXCEPT !.config.model = model]
    /\ UNCHANGED <<variant, fault, budget, tickets, isAiModalOpen, aiResults,
                   isRunningRef, runs, pending, cvars>>

\* onChange of the key field: setConfig({...config, apiKey: e.target.value})
onChangeApiKey(key) ==
    /\ isAiModalOpen
    /\ modal.step = "config"
    /\ modal.config.apiKey # key
    /\ modal' = [modal EXCEPT !.config.apiKey = key]
    /\ UNCHANGED <<variant, fault, budget, tickets, isAiModalOpen, aiResults,
                   isRunningRef, runs, pending, cvars>>

InitEdit ==
    /\ InitMain(MaxRuns, 0, {Settled(FALSE, ServerFailure, "")},
                {[k \in 1..MaxTickets |-> k]})
    /\ cErr = NoErr
    /\ cOut = NoVerdict
    /\ json = NoBody
    /\ token = NoToken

NextEdit ==
    \/ Next
    \/ \E text \in {"7", ""} : onChangeRpm(text)
    \/ \E model \in getModels : onChangeModel(model)
    \/ \E key \in ApiKeys : onChangeApiKey(key)
    \/ handleSearch
    \/ \E out \in SearchOutcomes : AfterSearchTickets(out)

\* The run of SpecSearch with the configuration form in use as well.
SpecEdit == InitEdit /\ [][NextEdit]_vars

(***************************************************************************)
(* C27.  What a run works with is fixed at its Start click: no step, an    *)
(* edit of the form and a new search result included, changes the          *)
(* configuration or the list the run holds; once the loop is entered its   *)
(* interval and its items stay the same, the interval is the one of the    *)
(* run's own rpm, the items are the head of the run's own list, and every  *)
(* provider call in flight is for the run's own item i.                    *)
(***************************************************************************)
C27_FixedAtStart ==
    [][\A r \in DOMAIN runs :
         LET old == runs[r]
             new == runs'[r]
         IN  /\ new.config = old.config
             /\ new.tickets = old.tickets
             /\ old.started =>
                  /\ new.delay = old.delay
                  /\ new.ticketsToProcess = old.ticketsToProcess
             /\ new.started =>
                  /\ new.delay = delayMs(new.config.rpm)
                  /\ new.ticketsToProcess =
                       SubSeq(new.tickets, 1, Len(new.ticketsToProcess))
                  /\ \A c \in pending' :
                       (c.run = r /\ c.call \in {"getTicketHistory", "generateContent"})
                         => c.arg = new.tickets[new.i + 1]]_vars

\* A loop fetches its second item while the form holds another rpm, model
\* and key than the run's, and the dashboard another list.
C27_EditedUnderLiveLoop ==
    \E r \in DOMAIN runs :
        /\ Live(runs[r])
        /\ runs[r].i = 1
        /\ Call(r, "getTicketHistory", runs[r].tickets[2]) \in pending
        /\ modal.config.rpm # runs[r].config.rpm
        /\ modal.config.model # runs[r].config.model
        /\ modal.config.apiKey # runs[r].config.apiKey
        /\ tickets # runs[r].tickets

(***************************************************************************)
(* The program with providers that answer and timers that fire: a call of  *)
(* a run does not stay pending for ever.  Only the continuation of its     *)
(* await takes a call out of the pending set, and it may put the run's     *)
(* next call in.                                                           *)
(***************************************************************************)
FollowUps(r, c) ==
    {Call(r, "getTicketHistory", runs[r].tickets[k]) : k \in DOMAIN runs[r].tickets}
    \cup {Call(r, "generateContent", c.arg)}
    \cup {Call(r, "setTimeout", k) : k \in 0..Len(runs[r].tickets)}

Settle(r) ==
    /\ r \in DOMAIN runs
    /\ \E c \in PendingOf(r) :
         \E next \in {{}} \cup {{d} : d \in FollowUps(r, c)} :
            pending' = (pending \ {c}) \cup next

SpecFair == Init /\ [][Next]_vars /\ \A r \in 1..MaxRuns : WF_pending(Settle(r))

(***************************************************************************)
(* C28.  Every run returns: a failed probe returns from startAnalysis,     *)
(* and a run that entered its loop leaves it through the exit path, which  *)
(* shows the final step and leaves the running flag false.                 *)
(***************************************************************************)
C28_EveryRunReturns ==
    /\ \A r \in 1..MaxRuns :
         [](r \in DOMAIN runs =>
              <>(/\ r \in DOMAIN runs
                 /\ runs[r].pc = "returned"
                 /\ runs[r].started => runs[r].exit.step = DoneStep(variant)))
    /\ [][\A r \in DOMAIN runs :
            (Live(runs[r]) /\ Returned(runs'[r])) =>
                /\ modal'.step = DoneStep(variant)
                /\ ~isRunningRef']_vars

\* A run over two tickets slept between them, met a failure and returned.
C28_ReturnedAfterSleepAndFailure ==
    \E r \in DOMAIN runs :
        /\ Returned(runs[r])
        /\ Len(runs[r].tickets) = 2
        /\ runs[r].slept = 1
        /\ budget.failures < MaxFailures
        /\ runs[r].exit.step = DoneStep(variant)
        /\ ~isRunningRef

(***************************************************************************)
(* C29.  At most one loop is live at a time, and a loop under which the    *)
(* flag was cleared starts no history fetch after that: it has made the    *)
(* fetches of its items up to the one it was at, and no more.              *)
(***************************************************************************)
C29_OneLiveLoop ==
    /\ Cardinality({r \in DOMAIN runs : Live(runs[r])}) <= 1
    /\ \A r \in DOMAIN runs :
         runs[r].cancel # NoCancel => runs[r].fetched = runs[r].cancel.i + 1

(***************************************************************************)
(* C30.  When the continuation of a loop under which the flag was cleared  *)
(* runs while a run started after it is in its own loop, it leaves the     *)
(* running flag, the step, the results and the counters of the modal as    *)
(* they were.                                                              *)
(***************************************************************************)
OlderLoopActs(r) ==
    /\ runs[r].cancel # NoCancel
    /\ \E c \in PendingOf(r) : c \notin pending'
    /\ \E q \in DOMAIN runs : q > r /\ Live(runs[q])

C30_OlderLoopLeavesNewerRun ==
    [][\A r \in DOMAIN runs :
         OlderLoopActs(r) =>
            /\ isRunningRef' = isRunningRef
            /\ modal'.step = modal.step
            /\ modal'.results = modal.results
            /\ modal'.progress = modal.progress
            /\ modal'.processedCount = modal.processedCount
            /\ modal'.errorCount = modal.errorCount]_vars

(***************************************************************************)
(* C31.  Whenever the running flag is true the step is 'processing'; the   *)
(* Stop button is rendered in that step when the modal is open, so with    *)
(* the flag true and the modal open Stop can be clicked.                   *)
(***************************************************************************)
\* The footer renders Stop in the processing step; a closed modal renders
\* nothing.
StopRendered == isAiModalOpen /\ modal.step = "processing"

C31_FlagOnlyWhileProcessing ==
    isRunningRef => /\ modal.step = "processing"
                    /\ isAiModalOpen => StopRendered

\* As stated: the flag true makes Stop available, the modal open or not.
C31_StopWheneverFlag == isRunningRef => StopRendered

\* The second loop of a session runs with the flag set and the modal open.
C31_SecondLoopRunning ==
    /\ isRunningRef
    /\ isAiModalOpen
    /\ Len(runs) = 2
    /\ Live(runs[2])
    /\ runs[1].cancel # NoCancel

(***************************************************************************)
(* The program with an analysis provider whose payloads carry a field more *)
(* than the schema asks for, and a history provider that may fail once.    *)
(***************************************************************************)
PayloadFailures == 1

InitPayload ==
    /\ InitMain(MaxRuns, PayloadFailures,
                {Settled(TRUE, NoErr, t) : t \in PayloadTexts}, TicketLists)
    /\ cErr = NoErr
    /\ cOut = NoVerdict
    /\ json = NoBody
    /\ token = NoToken

SpecPayload == InitPayload /\ [][Next]_vars

(***************************************************************************)
(* C32.  Every result a run emits for its item at index i carries the      *)
(* ticketId of that item, a success as well as a synthetic failure.        *)
(***************************************************************************)
C32_ResultCarriesItemId ==
    \A r \in DOMAIN runs :
        \A k \in 1..Len(runs[r].emitted) :
            LET e == runs[r].emitted[k] IN
            e[2].ticketId = runs[r].ticketsToProcess[e[1] + 1]

(***************************************************************************)
(* C33.  The keyed result map holds entries only for tickets of the list   *)
(* the dashboard shows: a search empties the map, and what is filed after  *)
(* it belongs to the current search result.                                *)
(***************************************************************************)
C33_MapWithinCurrentList ==
    DOMAIN aiResults \subseteq {tickets[k] : k \in DOMAIN tickets}

(***************************************************************************)
(* C34.  In part_000, when a run has emitted a result, processedCount is   *)
(* the number of analyses the run has emitted so far and errorCount the    *)
(* number of its synthetic failures, recoverable and fatal.                *)
(***************************************************************************)
Successes(run) == {k \in 1..Len(run.emitted) : run.emitted[k][3] = NoErr}

C34_CountersMatchResults ==
    [][variant = "upsert" =>
         \A r \in DOMAIN runs :
            Len(runs'[r].emitted) > Len(runs[r].emitted) =>
                /\ modal'.processedCount = Cardinality(Successes(runs'[r]))
                /\ modal'.errorCount =
                      Len(runs'[r].emitted) - Cardinality(Successes(runs'[r]))]_vars

(***************************************************************************)
(* C35.  The step in which the modal opens leaves it in the config step    *)
(* with progress 0, no alert and the running flag false, and with the      *)
(* configuration it had.  part_001 and AiAnalysisModal.tsx empty their     *)
(* result list; part_000 has none: it sets its two counters to 0 and the   *)
(* keyed map of the dashboard stays as it is.                              *)
(***************************************************************************)
Opens == ~isAiModalOpen /\ isAiModalOpen'

OpenResets ==
    /\ modal'.step = "config"
    /\ modal'.progress = 0
    /\ modal'.authError = ""
    /\ ~isRunningRef'
    /\ modal'.config = modal.config

C35_OpenResetsRunState ==
    [][Opens =>
          /\ OpenResets
          /\ IF variant = "upsert"
             THEN /\ modal'.processedCount = 0
                  /\ modal'.errorCount = 0
                  /\ aiResults' = aiResults
             ELSE modal'.results = <<>>]_vars

\* As stated: the results are empty after the opening in every variant.
C35_OpenEmptiesResults ==
    [][Opens => (OpenResets /\ Sink' = <<>>)]_vars

\* The modal was opened again after a run with an edited configuration had
\* filled its list: the list is empty, the configuration is the edited one.
C35_ReopenedWithEditedConfig ==
    /\ variant # "upsert"
    /\ isAiModalOpen
    /\ modal.step = "config"
    /\ modal.results = <<>>
    /\ modal.config # DefaultConfig(variant)
    /\ \E r \in DOMAIN runs :
         /\ Returned(runs[r])
         /\ Len(runs[r].emitted) >= 1
         /\ runs[r].config = modal.config

(***************************************************************************)
(* C36.  In part_001 and AiAnalysisModal.tsx a run works on the first 50   *)
(* tickets of its list: its index stays below 50, every call in flight is  *)
(* for one of the first 50 tickets, and it makes at most min(N, 50)        *)
(* history fetches and analysis calls and emits at most min(N, 50)         *)
(* results.                                                                *)
(***************************************************************************)
C36_FirstFiftyOnly ==
    variant # "upsert" =>
        \A r \in DOMAIN runs :
            LET run == runs[r]
                n   == Min(Len(run.tickets), 50)
            IN  /\ run.i < 50
                /\ run.fetched <= n
                /\ run.analyzed <= n
                /\ Len(run.emitted) <= n
                /\ \A c \in PendingOf(r) :
                     c.call \in {"getTicketHistory", "generateContent"} =>
                        \E k \in 1..n : c.arg = run.tickets[k]

\* A run over 51 tickets has returned after 50 fetches and 50 results.
C36_FiftyOfFiftyOne ==
    \E r \in DOMAIN runs :
        /\ variant # "upsert"
        /\ Returned(runs[r])
        /\ Len(runs[r].tickets) = 51
        /\ runs[r].fetched = 50
        /\ runs[r].analyzed = 50
        /\ Len(runs[r].emitted) = 50

(***************************************************************************)
(* C37.  A result emitted for a failed item has a non-empty error, score   *)
(* 0, no strengths and rcaDetected false; a result emitted for an analysis *)
(* that succeeded has no error.                                            *)
(***************************************************************************)
C37_ErrorMarksFailures ==
    \A r \in DOMAIN runs :
        \A k \in 1..Len(runs[r].emitted) :
            LET res == runs[r].emitted[k][2] IN
            IF runs[r].emitted[k][3] = NoErr
            THEN ErrorOf(res) = ""
            ELSE /\ ErrorOf(res) # ""
                 /\ res.score = 0
                 /\ res.strengths = <<>>
                 /\ res.rcaDetected = FALSE

(***************************************************************************)
(* ApiService.login on the body of a successful authentication response.   *)
(* An object is the sequence of its entries in the order of Object.keys.   *)
(***************************************************************************)
MaxEntries == 2

Str(s)  == [type |-> "string", text |-> s]
True    == [type |-> "boolean", text |-> "true"]

LoginKeys   == {"aiOpsAccessToken", "data", "authToken", "status", "session"}
LoginValues == {Str(""), Str("ok"), Str("abcdefghijkl"), Str("abcdefghijklmnop"), True}

Objects ==
    UNION { {e \in [1..n -> [key : LoginKeys, val : LoginValues]] :
                \A i, j \in 1..n : e[i].key = e[j].key => i = j} :
            n \in 0..MaxEntries }

\* What response.text() may hold: text that is no JSON, a JSON string, a
\* JSON number, a JSON object.
Bodies ==
    {[type |-> "text", text |-> "abc.def"], [type |-> "string", text |-> "tok"],
     [type |-> "number", text |-> "42"]}
    \cup {[type |-> "object", entries |-> e] : e \in Objects}

commonKeys == <<"aiOpsAccessToken", "token", "access_token", "accessToken",
                "data", "sessionId", "id_token", "idToken">>

Returns(s) == [ok |-> TRUE, value |-> s, called |-> TRUE]
Throws(s)  == [ok |-> FALSE, value |-> s, called |-> TRUE]

\* The least index of a non-empty set of indices.
First(S) == CHOOSE i \in S : \A j \in S : i <= j

\* ApiService.login from const text = await response.text() on.
login(body) ==
    IF body.type # "object" THEN Returns(body.text)
    ELSE
    LET e  == body.entries
        at(key) == {i \in DOMAIN e : e[i].key = key}
        \* 2a: json[key] && typeof json[key] === 'string', commonKeys in order
        a  == {c \in DOMAIN commonKeys :
                 \E i \in at(commonKeys[c]) :
                    e[i].val.type = "string" /\ e[i].val.text # ""}
        \* 2b: key.toLowerCase().includes('token') && typeof json[key] === 'string'
        b  == {i \in DOMAIN e : /\ includes(toLowerCase(e[i].key), "token")
                                /\ e[i].val.type = "string"}
        \* 2c: typeof val === 'string' && val.length > 15
        c  == {i \in DOMAIN e : e[i].val.type = "string" /\ Len(e[i].val.text) > 15}
    IN  IF a # {} THEN Returns(e[First(at(commonKeys[First(a)]))].val.text)
        ELSE IF b # {} THEN Returns(e[First(b)].val.text)
        ELSE IF c # {} THEN Returns(e[First(c)].val.text)
        \* 2d: exactly one value and it is a string
        ELSE IF Len(e) = 1 /\ e[1].val.type = "string" THEN Returns(e[1].val.text)
        ELSE Throws("Could not find token in response")

InitLogin ==
    /\ InitMain(0, 0, {Settled(FALSE, ServerFailure, "")}, {<<1, 2>>})
    /\ variant = "upsert"
    /\ modal.config.apiKey = ""
    /\ cErr = NoErr
    /\ cOut = NoVerdict
    /\ json \in Bodies
    /\ token = NoToken

\* The login form is submitted and the response is read.
Login ==
    /\ ~token.called
    /\ token' = login(json)
    /\ UNCHANGED <<mvars, cErr, cOut, json>>

SpecLogin == InitLogin /\ [][Login]_vars

(***************************************************************************)
(* C38.  For an object with none of the known token keys and no key that   *)
(* contains 'token', login returns the first string value that is longer   *)
(* than 10 characters, when there is one.                                  *)
(***************************************************************************)
C38_FirstStringOver10 ==
    (token.called /\ json.type = "object") =>
        LET e    == json.entries
            long == {i \in DOMAIN e :
                       e[i].val.type = "string" /\ Len(e[i].val.text) > 10}
        IN  (/\ \A i \in DOMAIN e :
                   /\ \A c \in DOMAIN commonKeys : e[i].key # commonKeys[c]
                   /\ ~includes(toLowerCase(e[i].key), "token")
             /\ long # {})
            => token = Returns(e[First(long)].val.text)

====
